---- MODULE Spec2Model ----
(***************************************************************************)
(* Incremental metrics pipeline of idvametrics: the composite-aggregation  *)
(* and scan query classes of analytics_query.py and analyticsquery.py, run *)
(* against a search backend holding the raw events and the day-partitioned *)
(* analytics index family.                                                 *)
(*                                                                         *)
(* Time is counted in ticks of five minutes; a calendar day is DayLen      *)
(* ticks.  A date string is the pair [d, s] (calendar day, tick in the     *)
(* day); parsing turns it into an epoch tick.                              *)
(***************************************************************************)
EXTENDS Integers, Sequences, FiniteSets, TLC

\* ---------------------------------------------------------------- bounds
DayLen == 2
MaxDay == 2
MaxEvents == 3
MaxRuns == 3
MaxHits == 2
MaxScanRuns == 2
MaxPageSize == 2
MaxQueries == 5

\* ------------------------------------------------------- program constants
\* timedelta(minutes=5): the safety overlap, one tick.
FIVE_MINS == 1
\* timedelta(days=1), in days.
ONE_DAY == 1

MaxTime == (MaxDay + 1) * DayLen - 1
Times == 0..MaxTime
Days == 0..MaxDay

None == [none |-> TRUE]
NoTs == -1

\* The two modules of the repository that implement the pipeline.
Impls == {"analytics_query", "analyticsquery"}

\* The two query classes of each module: CompositeAggregationQuery and ScanQuery.
Variants == {"composite", "scan"}

\* ------------------------------------------------------------- date strings
DateStrs == [d : Days, s : 0..(DayLen - 1)]

\* The date strings a run is given: calendar dates, parsed as their midnight.
ArgDates == {ds \in DateStrs : ds.s = 0}

\* parser.parse(s).timestamp(): a date string to an epoch tick.
EpochTime(ds) == ds.d * DayLen + ds.s

\* "value_as_string" of a min/max date aggregate: an epoch tick as a date string.
ValueAsString(t) == [d |-> t \div DayLen, s |-> t % DayLen]

\* parser.parse(value_as_string).date(): the calendar day of a date string.
DateOf(ds) == ds.d

\* ------------------------------------------------------- metric definitions
Metrics == {"connector_response_time", "interaction_response_time", "event_time"}

\* The metrics a ScanQuery is deployed with.
ScanMetrics == {"connector_pass_rate", "event_time"}

\* The ordered metric keys of a metric (for analytics_query.py, kwargs["metric_key"]).
MetricKeys(m) ==
  CASE m = "connector_pass_rate" -> <<"flowId", "interactionId", "id", "tsEms">>
    [] m = "connector_response_time" -> <<"interactionId", "id", "tsEms">>
    [] m = "interaction_response_time" -> <<"interactionId">>
    [] OTHER -> <<"interactionId", "tsEms">>

KeyFields(m) == {MetricKeys(m)[i] : i \in 1..Len(MetricKeys(m))}

\* The document keys of a metric.
DocumentKeys(m) ==
  CASE m = "connector_pass_rate" -> {"id", "connectionId", "outcomeStatus"}
    [] m = "connector_response_time" -> {"executionTime"}
    [] m = "interaction_response_time" -> {"sessionLength"}
    [] OTHER -> {}

InteractionIds == {"a"}
NodeIds == {"n1"}

\* Position of an interaction id in the backend's sort order of the composite keys.
IdRank(v) == IF v = "a" THEN 0 ELSE 1

NumStr == <<"0", "1", "2", "3", "4", "5", "6", "7", "8", "9", "10", "11", "12", "13", "14">>

\* f"{value}": the string a key value is formatted to.
FieldStr(f, v) == IF f = "tsEms" THEN NumStr[v + 1] ELSE v

\* A raw event of the flow in the source index.
EventRecs == [interactionId : InteractionIds, id : NodeIds, tsEms : Times]

\* The composite key of an event: its values of the metric keys.
KeyOf(m, e) == [f \in KeyFields(m) |-> e[f]]

RECURSIVE JoinKeys(_, _, _)
JoinKeys(keys, vals, i) ==
  IF i > Len(keys) THEN <<>>
  ELSE <<"-", FieldStr(keys[i], vals[keys[i]])>> \o JoinKeys(keys, vals, i + 1)

\* CompositeAggregationQuery.create_document_id: metric and key values joined by "-".
create_document_id(m, metric_keys) == <<m>> \o JoinKeys(MetricKeys(m), metric_keys, 1)

\* The characters of a formatted value (a value of one character is itself).
Chars(value) ==
  CASE value = "n1" -> <<"n", "1">>
    [] value = "x-y" -> <<"x", "-", "y">>
    [] value = "y-x" -> <<"y", "-", "x">>
    [] value = "10" -> <<"1", "0">>
    [] value = "11" -> <<"1", "1">>
    [] value = "12" -> <<"1", "2">>
    [] value = "13" -> <<"1", "3">>
    [] value = "14" -> <<"1", "4">>
    [] OTHER -> <<value>>

\* document_id.encode(): the characters of the id string, the pieces it was
\* concatenated from run together.
RECURSIVE Encode(_)
Encode(document_id) ==
  IF document_id = <<>> THEN <<>>
  ELSE Chars(Head(document_id)) \o Encode(Tail(document_id))

\* sha256(...).hexdigest(): collision-free, a function of the encoded string.
Sha256(s) == [sha256 |-> Encode(s)]

DocumentId(m, key) == Sha256(create_document_id(m, key))

\* ----------------------------------------------------------------- raw hits
\* A key the dictionary does not hold.
Absent == "absent"

\* A raw hit of a scan: the fields of its _source, and in top the value the hit
\* holds for "interactionId" outside _source.  Only interactionId may be
\* missing from the source or present at the top level.
Hits ==
  [top : {Absent, "b"}, flowId : {"f"}, interactionId : InteractionIds \cup {Absent},
   id : NodeIds, tsEms : Times]

\* hit[key] does not raise KeyError.
HasTop(hit, key) == key = "interactionId" /\ hit.top # Absent

\* hit["_source"][key] does not raise KeyError.
HasSource(hit, key) == key # "interactionId" \/ hit.interactionId # Absent

\* The lookup with the source payload tried first and the top level second.
source_before_top(hit, key) == IF HasSource(hit, key) THEN hit[key] ELSE hit.top

\* try hit[key], except KeyError hit["_source"][key].
HitValue(hit, key) == IF HasTop(hit, key) THEN hit.top ELSE hit[key]

\* The key values ScanQuery.create_document_id formats, as a composite key.
HitKey(m, hit) == [f \in KeyFields(m) |-> HitValue(hit, f)]

RECURSIVE JoinHit(_, _, _)
JoinHit(keys, hit, i) ==
  IF i > Len(keys) THEN <<>>
  ELSE <<"-", FieldStr(keys[i], HitValue(hit, keys[i]))>> \o JoinHit(keys, hit, i + 1)

\* The id of a hit with the key values joined without the separator.
document_id_without_separator(m, hit) ==
  [value |-> <<m>> \o [i \in 1..Len(MetricKeys(m)) |->
                         FieldStr(MetricKeys(m)[i], HitValue(hit, MetricKeys(m)[i]))]]

\* ScanQuery.create_document_id: KeyError when a key is in neither place.
ScanQuery_create_document_id(m, hit) ==
  IF \E key \in KeyFields(m) : ~HasTop(hit, key) /\ ~HasSource(hit, key)
  THEN [raise |-> "KeyError"]
  ELSE [value |-> <<m>> \o JoinHit(MetricKeys(m), hit, 1)]

\* ScanQuery.build_metric_key reads every metric key from the source.
build_metric_key(m, hit) ==
  IF \E key \in KeyFields(m) : ~HasSource(hit, key)
  THEN [raise |-> "KeyError"]
  ELSE [value |-> [f \in KeyFields(m) |-> hit[f]]]

\* --------------------------------------------------------- backend: search
SetMin(S) == CHOOSE x \in S : \A y \in S : x <= y
SetMax(S) == CHOOSE x \in S : \A y \in S : x >= y

\* The range filter with "lt" in place of "lte".
InRangeBelowEnd(q, e) == q.gte <= e.tsEms /\ e.tsEms < q.lte

\* The range and flow filter of the formatted query: tsEms gte start, lte end.
InRange(q, e) == q.gte <= e.tsEms /\ e.tsEms <= q.lte

Matching(evs, q) == {e \in evs : InRange(q, e)}

KeyRank(key) ==
  IdRank(key.interactionId) * (MaxTime + 1)
    + (IF "tsEms" \in DOMAIN key THEN key.tsEms ELSE 0)

\* One bucket of the composite aggregation over the matching events.
Bucket(m, evs, key) ==
  LET mine == {e \in evs : KeyOf(m, e) = key}
      ts == {e.tsEms : e \in mine}
  IN [key |-> key,
      doc_count |-> Cardinality(mine),
      min |-> ValueAsString(SetMin(ts)),
      max |-> ValueAsString(SetMax(ts))]

AllKeys(m, evs) == {KeyOf(m, e) : e \in evs}

RECURSIVE SortKeys(_)
SortKeys(S) ==
  IF S = {} THEN <<>>
  ELSE LET k == CHOOSE x \in S : \A y \in S : KeyRank(x) <= KeyRank(y)
       IN <<k>> \o SortKeys(S \ {k})

Take(s, n) == IF Len(s) <= n THEN s ELSE SubSeq(s, 1, n)

\* elasticsearch.search of the formatted query: the next page of at most
\* q.size buckets after the carried after-key, in key order.
Search(m, evs, q) ==
  LET match == Matching(evs, q)
      keys == {k \in AllKeys(m, match) :
                 q.after = None \/ KeyRank(k) > KeyRank(q.after)}
      page == Take(SortKeys(keys), q.size)
  IN [i \in 1..Len(page) |-> Bucket(m, match, page[i])]

\* The "after_key" of a non-empty page: the key of its last bucket.
AfterKey(page) == page[Len(page)].key

\* Position of a hit in the order helpers.scan yields the hits.
HitRank(hit) ==
  4 * hit.tsEms + (IF hit.top = Absent THEN 0 ELSE 2)
    + (IF hit.interactionId = Absent THEN 1 ELSE 0)

RECURSIVE SortHits(_)
SortHits(S) ==
  IF S = {} THEN <<>>
  ELSE LET h == CHOOSE x \in S : \A y \in S : HitRank(x) <= HitRank(y)
       IN <<h>> \o SortHits(S \ {h})

\* helpers.scan of the formatted query: every matching hit, once.
Scan(evs, q) == SortHits(Matching(evs, q))

\* ------------------------------------------------- analytics index family
\* f"{ANALYTICS_INDEX_PREFIX}-{date.strftime('%Y.%m.%d')}": the partition of a day.
IndexName(day) == [analytics |-> day]

\* elasticsearch.exists(index, id) against the documents ds of the family.
Exists(ds, index, document_id) ==
  \E x \in ds : x.index = index /\ x.id = document_id

create_bulk_delete_action(index, document_id) ==
  [op_type |-> "delete", index |-> index, id |-> document_id]

create_bulk_index_action(index_to_update, document_id, document) ==
  [op_type |-> "index", index |-> index_to_update, id |-> document_id,
   source |-> document]

\* create_index without the indices.exists test.
create_index_unconditionally(idxs, new_index) ==
  [indices |-> idxs \cup {new_index}, issued |-> {new_index}]

\* create_index: indices.create is issued only when indices.exists is false.
\* issued holds the partition a create request was sent for.
create_index(idxs, new_index) ==
  IF new_index \notin idxs
  THEN [indices |-> idxs \cup {new_index}, issued |-> {new_index}]
  ELSE [indices |-> idxs, issued |-> {}]

\* The walk that keeps checking after the first partition that holds the id.
RECURSIVE existence_checks_without_break(_, _, _, _)
existence_checks_without_break(ds, min_date, max_date, document_id) ==
  IF ~(min_date < max_date) THEN <<>>
  ELSE <<min_date>>
       \o existence_checks_without_break(ds, min_date + ONE_DAY, max_date, document_id)

\* The days whose partition the reconciler's loop asks elasticsearch.exists
\* about, in the order of the calls.
RECURSIVE existence_checks(_, _, _, _)
existence_checks(ds, min_date, max_date, document_id) ==
  IF ~(min_date < max_date) THEN <<>>
  ELSE IF Exists(ds, IndexName(min_date), document_id) THEN <<min_date>>
  ELSE <<min_date>>
       \o existence_checks(ds, min_date + ONE_DAY, max_date, document_id)

\* The reconciler with the day advanced before the existence check: the
\* partition of min_date itself is never looked at.
RECURSIVE deletes_advancing_before_check(_, _, _, _)
deletes_advancing_before_check(ds, min_date, max_date, document_id) ==
  IF ~(min_date + ONE_DAY < max_date) THEN <<>>
  ELSE IF Exists(ds, IndexName(min_date + ONE_DAY), document_id)
       THEN <<[op_type |-> "delete", index |-> IndexName(min_date + ONE_DAY),
               id |-> document_id]>>
       ELSE deletes_advancing_before_check(
              ds, min_date + ONE_DAY, max_date, document_id)

\* The reconciler with the walk running up to and including max_date.
RECURSIVE deletes_through_max_date(_, _, _, _)
deletes_through_max_date(ds, min_date, max_date, document_id) ==
  IF ~(min_date <= max_date) THEN <<>>
  ELSE IF Exists(ds, IndexName(min_date), document_id)
       THEN <<[op_type |-> "delete", index |-> IndexName(min_date),
               id |-> document_id]>>
       ELSE deletes_through_max_date(ds, min_date + ONE_DAY, max_date, document_id)

\* The reconciler: walk the days from min_date up to but excluding max_date and
\* delete the first partition that holds the id.
RECURSIVE build_bulk_deletes_of_existing_documents(_, _, _, _)
build_bulk_deletes_of_existing_documents(ds, min_date, max_date, document_id) ==
  IF ~(min_date < max_date) THEN <<>>
  ELSE IF Exists(ds, IndexName(min_date), document_id)
       THEN <<create_bulk_delete_action(IndexName(min_date), document_id)>>
       ELSE build_bulk_deletes_of_existing_documents(
              ds, min_date + ONE_DAY, max_date, document_id)

\* The analytics document of a bucket (the fields the pipeline reads back).
create_analytics_document(m, bucket) ==
  [doc_count |-> bucket.doc_count,
   max_date |-> bucket.max,
   metric |-> m,
   tsEms |-> IF "tsEms" \in KeyFields(m) THEN bucket.key.tsEms ELSE NoTs]

\* The partition of the day of the min date of a bucket.
index_of_min_date(bucket) == IndexName(DateOf(bucket.min))

\* The partition a bucket is written to: the day of its max date.
IndexToUpdate(bucket) == IndexName(DateOf(bucket.max))

\* The actions of one bucket with the index action appended first.
index_action_before_deletes(m, ds, bucket) ==
  LET document_id == DocumentId(m, bucket.key)
  IN <<create_bulk_index_action(
         IndexToUpdate(bucket), document_id, create_analytics_document(m, bucket))>>
     \o build_bulk_deletes_of_existing_documents(
          ds, DateOf(bucket.min), DateOf(bucket.max), document_id)

\* The actions of one bucket: the reconciler's delete, then the index action.
BucketActions(m, ds, bucket) ==
  LET document_id == DocumentId(m, bucket.key)
  IN build_bulk_deletes_of_existing_documents(
       ds, DateOf(bucket.min), DateOf(bucket.max), document_id)
     \o <<create_bulk_index_action(
            IndexToUpdate(bucket), document_id, create_analytics_document(m, bucket))>>

RECURSIVE build_bulk_actions_from_query_result(_, _, _)
build_bulk_actions_from_query_result(m, ds, buckets) ==
  IF buckets = <<>> THEN <<>>
  ELSE BucketActions(m, ds, Head(buckets))
       \o build_bulk_actions_from_query_result(m, ds, Tail(buckets))

\* The partitions create_index is called for while a batch is built, in order.
IndicesOf(buckets) == [i \in 1..Len(buckets) |-> IndexToUpdate(buckets[i])]

\* The create_index calls of a batch, applied to the existing partitions.
RECURSIVE CreateEach(_, _)
CreateEach(st, names) ==
  IF names = <<>> THEN st
  ELSE LET c == create_index(st.indices, Head(names))
       IN CreateEach([indices |-> c.indices, issued |-> st.issued \cup c.issued],
                     Tail(names))

\* The existence checks of a batch, bucket by bucket.
ChecksOf(m, ds, buckets) ==
  [i \in 1..Len(buckets) |->
     existence_checks(ds, DateOf(buckets[i].min), DateOf(buckets[i].max),
                      DocumentId(m, buckets[i].key))]

\* ------------------------------------------------------------ scan batch
\* ScanQuery.create_analytics_document: the document of a raw hit.
ScanQuery_create_analytics_document(m, hit) ==
  [doc_count |-> 1,
   max_date |-> ValueAsString(hit.tsEms),
   metric |-> m,
   tsEms |-> NoTs]

\* parser.parse(source["tsEms"]).date(): the partition of the hit's own day.
HitIndexToUpdate(hit) == IndexName(DateOf(ValueAsString(hit.tsEms)))

\* The exception the loop body raises on a hit before it reaches create_index:
\* create_document_id, then build_metric_key, then in analytics_query.py
\* node["title"] on a list when the document has an "id".
HitError(im, m, hit) ==
  IF "raise" \in DOMAIN ScanQuery_create_document_id(m, hit) THEN "KeyError"
  ELSE IF "raise" \in DOMAIN build_metric_key(m, hit) THEN "KeyError"
  ELSE IF im = "analytics_query" /\ "id" \in DocumentKeys(m) THEN "TypeError"
  ELSE "none"

\* The loop over the hits: one index action per hit, create_index before it;
\* the first exception ends the loop.
RECURSIVE ScanQuery_build_bulk_actions(_, _, _, _)
ScanQuery_build_bulk_actions(im, m, hits, st) ==
  IF hits = <<>> THEN st
  ELSE LET hit == Head(hits)
           err == HitError(im, m, hit)
           document_id == Sha256(ScanQuery_create_document_id(m, hit).value)
           c == create_index(st.indices, HitIndexToUpdate(hit))
           bulk_action == create_bulk_index_action(
                            HitIndexToUpdate(hit), document_id,
                            ScanQuery_create_analytics_document(m, hit))
       IN IF err # "none" THEN [st EXCEPT !.error = err]
          ELSE ScanQuery_build_bulk_actions(im, m, Tail(hits),
                 [bulk_actions |-> Append(st.bulk_actions, bulk_action),
                  indices |-> c.indices,
                  issued |-> st.issued \cup c.issued,
                  error |-> "none"])

\* The batch built with the hits taken last first.
scan_batch_in_reverse_order(im, m, hits, idxs) ==
  ScanQuery_build_bulk_actions(im, m,
    [i \in 1..Len(hits) |-> hits[Len(hits) + 1 - i]],
    [bulk_actions |-> <<>>, indices |-> idxs, issued |-> {}, error |-> "none"])

\* for hit in query_result: the loop started with an empty batch.
ScanBatch(im, m, hits, idxs) ==
  ScanQuery_build_bulk_actions(im, m, hits,
    [bulk_actions |-> <<>>, indices |-> idxs, issued |-> {}, error |-> "none"])

\* helpers.bulk: the actions applied to the documents in order.
RECURSIVE Bulk(_, _)
Bulk(ds, actions) ==
  IF actions = <<>> THEN ds
  ELSE LET a == Head(actions)
           kept == {x \in ds : ~(x.index = a.index /\ x.id = a.id)}
       IN Bulk(IF a.op_type = "index"
               THEN kept \cup {[index |-> a.index, id |-> a.id, source |-> a.source]}
               ELSE kept,
               Tail(actions))

\* The hits of the newest-timestamp query: size 1, sorted by max_date descending.
NewestHits(ds) ==
  {x \in ds : \A y \in ds : EpochTime(y.source.max_date) <= EpochTime(x.source.max_date)}

\* ------------------------------------------------------ window resolution
\* analyticsutils.epoch_time(date, offset): the epoch time of date minus offset.
epoch_time(t, offset) == t - offset

\* analytics_query.py get_most_recent_timestamp: hit is the newest hit of the
\* flow, or None when the search returns no hit.  hits[0] of an empty list is an
\* IndexError; a hit without tsEms is the caught KeyError.
get_most_recent_timestamp(hit, t) ==
  IF hit = None THEN [raise |-> "IndexError"]
  ELSE LET latest_timestamp == IF hit.source.tsEms = NoTs THEN t ELSE hit.source.tsEms
       IN [value |-> latest_timestamp - FIVE_MINS]

\* analytics_query.py __convert_start_date_to_int_date.  alias is the backend's
\* answer to indices.get_alias(f"{index_pattern}-*").
convert_start_date_to_int_date(start_date, alias, hit, t) ==
  IF start_date # None THEN [value |-> EpochTime(start_date)]
  ELSE IF ~alias THEN [value |-> t - FIVE_MINS]
  ELSE get_most_recent_timestamp(hit, t)

\* __convert_end_date_to_int_date, and the end of __get_date.
convert_end_date_to_int_date(end_date, t) ==
  IF end_date # None THEN EpochTime(end_date) ELSE t

\* analyticsquery.py __get_most_recent_timestamp: NoTs stands for None.
most_recent_timestamp(alias, hit) ==
  IF ~alias THEN [value |-> NoTs]
  ELSE IF hit = None THEN [raise |-> "IndexError"]
  ELSE [value |-> hit.source.tsEms]

\* analyticsquery.py __get_date: the start of the window.
get_date(start_date, alias, hit) ==
  IF start_date # None THEN [value |-> EpochTime(start_date)]
  ELSE LET start == most_recent_timestamp(alias, hit)
       IN IF "raise" \in DOMAIN start THEN start
          ELSE IF start.value # NoTs THEN [value |-> epoch_time(start.value, FIVE_MINS)]
          ELSE [value |-> 0]

\* format_query: the size, the range filter and no after-key yet.
format_query(start, end, size) ==
  [gte |-> start, lte |-> end, size |-> size, after |-> None]

\* ScanQuery.format_query: the range filter; a scan has no page size.
ScanQuery_format_query(start, end) ==
  [gte |-> start, lte |-> end, size |-> 0, after |-> None]

\* The loop conditions of the two paginators.
\* analytics_query.py: while len(buckets) == num_composite_buckets.
FullPage(buckets, size) == Len(buckets) = size
\* analyticsquery.py: while len(buckets) > 0.
NonEmptyPage(buckets) == Len(buckets) > 0

\* The cursor is not written into the composite clause.
CarryAfterDropped(q, page) == q

\* The cursor carried is the key of the first bucket of the page, not of the last.
CarryFirstKey(q, page) == [q EXCEPT !.after = page[1].key]

\* The cursor carried, and the start of the range moved to the newest date of
\* the page just handled.
CarryAfterAndMoveStart(q, page) ==
  [q EXCEPT !.after = AfterKey(page), !.gte = EpochTime(page[Len(page)].max)]

\* query_composite["after"] = query_after_key: the cursor carried to the next query.
CarryAfter(q, page) == [q EXCEPT !.after = AfterKey(page)]

\* --------------------------------------------------- the query template
\* A query is a dictionary: a function from the keys it holds to their values.
\* A Python list is the record [list |-> <<...>>] of its elements in order.
EmptyDict == [key \in {} |-> None]

List(elements) == [list |-> elements]

\* The value has the append method of a list.
IsList(value) == "list" \in DOMAIN value

\* key in dictionary.
Has(dictionary, key) == key \in DOMAIN dictionary

\* dictionary.setdefault(key, {}).
setdefault(dictionary, key) ==
  IF Has(dictionary, key) THEN dictionary[key] ELSE EmptyDict

\* update_nested_key: walk key_path with setdefault, then update the dictionary
\* reached with value (the keys of value replace, every other key stays).
RECURSIVE update_nested_key(_, _, _)
update_nested_key(dictionary, key_path, value) ==
  IF key_path = <<>> THEN value @@ dictionary
  ELSE LET key == Head(key_path)
       IN (key :> update_nested_key(setdefault(dictionary, key), Tail(key_path), value))
            @@ dictionary

\* The flowId clause: CompositeAggregationQuery nests the flow id under "query",
\* ScanQuery gives it directly.
match_phrase(v, flow_id) ==
  IF v = "composite"
  THEN [match_phrase |-> [flowId |-> [query |-> flow_id]]]
  ELSE [match_phrase |-> [flowId |-> flow_id]]

\* The event-time range clause.
query_range(start, end) ==
  [range |-> [tsEms |-> [gte |-> start, lte |-> end, format |-> "epoch_second"]]]

\* The injection that sets the must list to the two clauses whatever it held.
inject_filters_replacing_must(query_dict, match, range) ==
  [value |-> update_nested_key(query_dict, <<"query", "bool">>,
                               [must |-> List(<<match, range>>)])]

\* try: query["query"]["bool"]["must"].append(...) twice; except KeyError:
\* update_nested_key(query, ["query", "bool"], {"must": [...]}).  A must that
\* is a single clause object has no append: AttributeError, not caught.
inject_filters(query_dict, match, range) ==
  IF /\ Has(query_dict, "query")
     /\ Has(query_dict["query"], "bool")
     /\ Has(query_dict["query"]["bool"], "must")
  THEN LET must == query_dict["query"]["bool"]["must"]
       IN IF IsList(must)
          THEN [value |-> update_nested_key(query_dict, <<"query", "bool">>,
                            [must |-> List(must.list \o <<match, range>>)])]
          ELSE [raise |-> "AttributeError"]
  ELSE [value |-> update_nested_key(query_dict, <<"query", "bool">>,
                                    [must |-> List(<<match, range>>)])]

\* CompositeAggregationQuery.format_query on the whole query: the page size, the
\* max and min aggregations, then the two filters.
format_query_template(query_dict, flow_id, start, end, size) ==
  LET sized == update_nested_key(query_dict,
                 <<"aggs", "composite_buckets", "composite">>, [size |-> size])
      with_max == update_nested_key(sized,
                    <<"aggs", "composite_buckets", "aggs", "max">>,
                    [max |-> [field |-> "tsEms"]])
      with_min == update_nested_key(with_max,
                    <<"aggs", "composite_buckets", "aggs", "min">>,
                    [min |-> [field |-> "tsEms"]])
  IN inject_filters(with_min, match_phrase("composite", flow_id),
                    query_range(start, end))

\* ScanQuery.format_query on the whole query: the two filters.
ScanQuery_format_query_template(query_dict, flow_id, start, end) ==
  inject_filters(query_dict, match_phrase("scan", flow_id), query_range(start, end))

\* The flow the deployment is about.
FlowId == "f"

\* Filter clauses a caller's template holds.
TermClause == [term |-> [eventMessage |-> "m"]]
ExistsClause == [exists |-> [field |-> "tsEms"]]

\* What a template holds under "must": a list of clauses, or one clause object.
MustValues ==
  {List(<<>>), List(<<TermClause>>), List(<<TermClause, ExistsClause>>),
   List(<<ExistsClause, TermClause>>), TermClause}

\* The "bool" dictionaries of the templates: with or without "filter", with or
\* without "must".
BoolDicts ==
  LET others == {EmptyDict, [filter |-> List(<<ExistsClause>>)]}
  IN others \cup {("must" :> mv) @@ o : mv \in MustValues, o \in others}

\* The "query" dictionaries of the templates: with or without "bool".
QueryDicts == {[match_all |-> EmptyDict]} \cup {[bool |-> b] : b \in BoolDicts}

\* The templates without "query": empty, or with the sources of the composite.
BareTemplates ==
  {EmptyDict,
   [aggs |-> [composite_buckets |->
      [composite |-> [sources |-> List(<<"interactionId">>)]]]]}

\* The queries a caller supplies.
Templates ==
  BareTemplates \cup {("query" :> q) @@ t : q \in QueryDicts, t \in BareTemplates}

\* ---------------------------------------------------------------- state
VARIABLES
  impl,           \* the module that is deployed
  variant,        \* the query class that is deployed
  metric,         \* the metric of the deployment
  events,         \* the raw events of the flow in the source index
  now,            \* the clock
  docs,           \* the documents of the analytics index family
  indices,        \* the partitions that exist
  runNo,          \* number of runs started so far
  pc,             \* position of the job: idle, query, build, bulk, done, error,
                  \* aborted
  error,          \* the exception that ended the run
  args,           \* the start and end date strings the run was given
  date,           \* the resolved window
  query,          \* the formatted query, with the carried after-key
  query_result,   \* the page returned by the latest query
  query_buckets,  \* analyticsquery.py: the buckets accumulated over the pages
  bulk_actions,   \* the batch built and not yet sent
  nqueries,       \* queries answered in this run
  seen,           \* the buckets returned to this run
  sent,           \* the actions this run has submitted in bulk writes
  created,        \* the partitions this run has sent a create request for
  checked,        \* the days the reconciler checked, per bucket of the batch
  docs0,          \* the documents of the family when this run started
  indices0,       \* the partitions that existed when this run started
  run1Obs,        \* the observations the first run published
  template,       \* format_query alone: the query the caller supplies
  formatted,      \* format_query alone: the query after formatting
  observations,   \* create_document_id alone: the key values of two observations
  document_ids    \* create_document_id alone: the id strings of the two

vars == <<impl, variant, metric, events, now, docs, indices, runNo, pc, error, args,
          date, query, query_result, query_buckets, bulk_actions, nqueries, seen,
          sent, created, checked, docs0, indices0, run1Obs, template,
          formatted, observations, document_ids>>

config == <<impl, variant, metric>>
\* What the specifications of a single function are about; the pipeline leaves
\* it alone.
calls == <<template, formatted, observations, document_ids>>
backend == <<events, docs, indices>>
local == <<error, args, date, query, query_result, query_buckets, bulk_actions,
           nqueries, seen, sent, created, checked, docs0, indices0>>

NoDate == [start_date |-> 0, end_date |-> 0]
NoArgs == [start_date |-> None, end_date |-> None]
NoQuery == format_query(0, 0, 0)

\* An observation: the identity and the day span of a bucket.
Obs(bucket) ==
  [id |-> DocumentId(metric, bucket.key),
   min |-> DateOf(bucket.min), max |-> DateOf(bucket.max)]

ObsOf(buckets) == {Obs(buckets[i]) : i \in 1..Len(buckets)}

\* No job has run: the backend is empty and the job is idle.
Constructed ==
  /\ events = {}
  /\ now = 0
  /\ docs = {}
  /\ indices \in {{}, {IndexName(0)}}
  /\ runNo = 0
  /\ pc = "idle"
  /\ error = "none"
  /\ args = NoArgs
  /\ date = NoDate
  /\ query = NoQuery
  /\ query_result = <<>>
  /\ query_buckets = <<>>
  /\ bulk_actions = <<>>
  /\ nqueries = 0
  /\ seen = {}
  /\ sent = <<>>
  /\ created = {}
  /\ checked = <<>>
  /\ docs0 = {}
  /\ indices0 = {}
  /\ run1Obs = {}

\* No function is looked at alone.
NoCalls ==
  /\ template = None
  /\ formatted = None
  /\ observations = <<>>
  /\ document_ids = <<>>

\* The state after construction of a deployment of query class v.
Deployed(v) ==
  /\ impl \in Impls
  /\ variant = v
  /\ metric \in (IF v = "composite" THEN Metrics ELSE ScanMetrics)
  /\ Constructed
  /\ NoCalls

Init == Deployed("composite")

ScanInit == Deployed("scan")

\* ------------------------------------------------------------ environment
Tick ==
  /\ pc = "idle"
  /\ now < MaxTime
  /\ now' = now + 1
  /\ UNCHANGED <<config, calls, backend, runNo, pc, local, run1Obs>>

\* An event of the flow is indexed, possibly late.
AddEvent ==
  /\ pc = "idle"
  /\ Cardinality(events) < (IF variant = "composite" THEN MaxEvents ELSE MaxHits)
  /\ \E e \in (IF variant = "composite" THEN EventRecs ELSE Hits) :
       /\ e.tsEms <= now
       /\ e \notin events
       /\ events' = events \cup {e}
  /\ UNCHANGED <<config, calls, now, docs, indices, runNo, pc, local, run1Obs>>

\* ------------------------------------------------------------- the job
\* __init__: resolve the window and format the query.
StartRun ==
  /\ pc = "idle"
  /\ runNo < (IF variant = "composite" THEN MaxRuns ELSE MaxScanRuns)
  /\ \E sd \in ArgDates \cup {None}, ed \in ArgDates \cup {None},
        size \in (IF variant = "composite" THEN 1..MaxPageSize ELSE {0}),
        srcAlias \in BOOLEAN,
        hit \in IF docs = {} THEN {None} ELSE NewestHits(docs) :
       LET alias == IF impl = "analytics_query" THEN srcAlias ELSE indices # {}
           start == IF impl = "analytics_query"
                    THEN convert_start_date_to_int_date(sd, alias, hit, now)
                    ELSE get_date(sd, alias, hit)
           end == convert_end_date_to_int_date(ed, now)
       IN /\ args' = [start_date |-> sd, end_date |-> ed]
          /\ docs0' = docs
          /\ indices0' = indices
          /\ IF "raise" \in DOMAIN start
             THEN /\ pc' = "error"
                  /\ error' = start.raise
                  /\ UNCHANGED <<date, query>>
             ELSE /\ pc' = "query"
                  /\ date' = [start_date |-> start.value, end_date |-> end]
                  /\ query' = IF variant = "composite"
                               THEN format_query(start.value, end, size)
                               ELSE ScanQuery_format_query(start.value, end)
                  /\ UNCHANGED error
  /\ runNo' = runNo + 1
  /\ UNCHANGED <<config, calls, backend, now, query_result, query_buckets, bulk_actions,
                 nqueries, seen, sent, created, checked, run1Obs>>

\* run_query, and the branch the paginator takes on the page.
RunQuery ==
  /\ variant = "composite"
  /\ pc = "query"
  /\ nqueries < MaxQueries
  /\ LET page == Search(metric, events, query)
     IN /\ query_result' = page
        /\ seen' = seen \cup ObsOf(page)
        /\ IF impl = "analytics_query"
           THEN /\ pc' = IF FullPage(page, query.size) \/ page # <<>>
                         THEN "build" ELSE "done"
                /\ UNCHANGED <<query, query_buckets, error>>
           ELSE IF NonEmptyPage(page)
           THEN /\ query_buckets' = query_buckets \o page
                /\ query' = CarryAfter(query, page)
                /\ pc' = "query"
                /\ UNCHANGED error
           ELSE \* company_id is bound in the loop body only
                /\ pc' = IF query_buckets = <<>> THEN "error" ELSE "build"
                /\ error' = IF query_buckets = <<>> THEN "UnboundLocalError" ELSE error
                /\ UNCHANGED <<query, query_buckets>>
  /\ nqueries' = nqueries + 1
  /\ UNCHANGED <<config, calls, backend, now, runNo, args, date, bulk_actions, sent,
                 created, checked, docs0, indices0, run1Obs>>

\* The backend fails the query (of a page, or of the scan): the exception is
\* not caught and the run aborts.
QueryFails ==
  /\ pc = "query"
  /\ nqueries < MaxQueries
  /\ pc' = "aborted"
  /\ error' = "TransportError"
  /\ UNCHANGED <<config, calls, backend, now, runNo, args, date, query, query_result,
                 query_buckets, bulk_actions, nqueries, seen, sent, created,
                 checked, docs0, indices0, run1Obs>>

\* The buckets the batch is built from: the page just returned (in
\* analyticsquery.py `buckets` is the last page, not query_buckets).
BucketsToBuild == query_result

\* analytics_query.py create_analytics_document: node is a list, so node["title"]
\* raises TypeError whenever the document has an "id".
NodeNameRaises == impl = "analytics_query" /\ "id" \in KeyFields(metric)

\* Build the batch of the page: existence checks, create_index, the actions.
BuildActions ==
  /\ variant = "composite"
  /\ pc = "build"
  /\ LET buckets == BucketsToBuild
         raises == buckets # <<>> /\ NodeNameRaises
         built == IF raises THEN Take(buckets, 1) ELSE buckets
         c == CreateEach([indices |-> indices, issued |-> {}], IndicesOf(built))
     IN /\ indices' = c.indices
        /\ created' = created \cup c.issued
        /\ checked' = ChecksOf(metric, docs, built)
        /\ IF raises
           THEN /\ pc' = "error"
                /\ error' = "TypeError"
                /\ UNCHANGED bulk_actions
           ELSE /\ bulk_actions' =
                     build_bulk_actions_from_query_result(metric, docs, buckets)
                /\ pc' = "bulk"
                /\ UNCHANGED error
  /\ UNCHANGED <<config, calls, events, docs, now, runNo, args, date, query, query_result,
                 query_buckets, nqueries, seen, sent, docs0, indices0, run1Obs>>

\* helpers.bulk, and what the paginator does next.
SendBulk ==
  /\ variant = "composite"
  /\ pc = "bulk"
  /\ docs' = Bulk(docs, bulk_actions)
  /\ sent' = sent \o bulk_actions
  /\ bulk_actions' = <<>>
  /\ run1Obs' = IF runNo = 1 THEN run1Obs \cup ObsOf(BucketsToBuild) ELSE run1Obs
  /\ IF impl = "analytics_query" /\ FullPage(query_result, query.size)
     THEN /\ query' = CarryAfter(query, query_result)
          /\ pc' = "query"
     ELSE /\ pc' = "done"
          /\ UNCHANGED query
  /\ UNCHANGED <<config, calls, events, indices, now, runNo, error, args, date,
                 query_result, query_buckets, nqueries, seen, created, checked,
                 docs0, indices0>>

\* ScanQuery: the scan and the loop over its hits, up to the bulk request.
ScanHits ==
  /\ variant = "scan"
  /\ pc = "query"
  /\ LET hits == Scan(events, query)
         b == ScanBatch(impl, metric, hits, indices)
     IN /\ query_result' = hits
        /\ indices' = b.indices
        /\ created' = created \cup b.issued
        /\ IF b.error # "none"
           THEN /\ pc' = "error"
                /\ error' = b.error
                /\ UNCHANGED bulk_actions
           ELSE /\ pc' = "bulk"
                /\ bulk_actions' = b.bulk_actions
                /\ UNCHANGED error
  /\ nqueries' = nqueries + 1
  /\ UNCHANGED <<config, calls, events, docs, now, runNo, args, date, query, query_buckets,
                 seen, sent, checked, docs0, indices0, run1Obs>>

\* ScanQuery: helpers.bulk of the one batch of the run.
ScanBulk ==
  /\ variant = "scan"
  /\ pc = "bulk"
  /\ docs' = Bulk(docs, bulk_actions)
  /\ sent' = sent \o bulk_actions
  /\ bulk_actions' = <<>>
  /\ pc' = "done"
  /\ UNCHANGED <<config, calls, events, indices, now, runNo, error, args, date, query,
                 query_result, query_buckets, nqueries, seen, created, checked,
                 docs0, indices0, run1Obs>>

\* The process ends; the next invocation starts afresh.
Exit ==
  /\ pc \in {"done", "error", "aborted"}
  /\ pc' = "idle"
  /\ error' = "none"
  /\ args' = NoArgs
  /\ date' = NoDate
  /\ query' = NoQuery
  /\ query_result' = <<>>
  /\ query_buckets' = <<>>
  /\ bulk_actions' = <<>>
  /\ nqueries' = 0
  /\ seen' = {}
  /\ sent' = <<>>
  /\ created' = {}
  /\ checked' = <<>>
  /\ docs0' = {}
  /\ indices0' = {}
  /\ UNCHANGED <<config, calls, backend, now, runNo, run1Obs>>

\* A deployment of CompositeAggregationQuery.
Next ==
  \/ Tick \/ AddEvent \/ StartRun \/ RunQuery \/ QueryFails \/ BuildActions
  \/ SendBulk \/ Exit

Spec == Init /\ [][Next]_vars

\* A deployment of ScanQuery.
ScanNext ==
  \/ Tick \/ AddEvent \/ StartRun \/ QueryFails \/ ScanHits \/ ScanBulk \/ Exit

ScanSpec == ScanInit /\ [][ScanNext]_vars

\* A deployment of either query class.
EitherInit == Init \/ ScanInit

EitherNext ==
  \/ Tick \/ AddEvent \/ StartRun \/ RunQuery \/ QueryFails \/ BuildActions
  \/ SendBulk \/ ScanHits \/ ScanBulk \/ Exit

EitherSpec == EitherInit /\ [][EitherNext]_vars

\* ------------------------------------------------- format_query alone
\* A query class is about to be constructed with one of the templates.
FormatInit ==
  /\ impl \in Impls
  /\ variant \in Variants
  /\ metric = "event_time"
  /\ Constructed
  /\ template \in Templates
  /\ formatted = None
  /\ observations = <<>>
  /\ document_ids = <<>>

\* __init__ calls format_query once on the caller's query.
FormatQuery ==
  /\ formatted = None
  /\ \E start \in 0..1, end \in 1..2, size \in 1..MaxPageSize :
       formatted' = IF variant = "composite"
                    THEN format_query_template(template, FlowId, start, end, size)
                    ELSE ScanQuery_format_query_template(template, FlowId, start, end)
  /\ UNCHANGED <<config, backend, now, runNo, pc, local, run1Obs, template,
                 observations, document_ids>>

FormatNext == FormatQuery

FormatSpec == FormatInit /\ [][FormatNext]_vars

\* --------------------------------------------- create_document_id alone
\* Key values that hold the separator, and key values that do not.
IdValues == {"x", "y", "x-y", "y-x"}

\* The metric-key values of an observation of connector_response_time.
IdKeys == [interactionId : IdValues, id : IdValues, tsEms : {0}]

\* Two observations of one metric are about to be identified.
IdInit ==
  /\ impl \in Impls
  /\ variant = "composite"
  /\ metric = "connector_response_time"
  /\ Constructed
  /\ template = None
  /\ formatted = None
  /\ observations \in IdKeys \X IdKeys
  /\ document_ids = <<>>

\* create_document_id of each of the two, encoded for the hash.
CreateDocumentIds ==
  /\ document_ids = <<>>
  /\ document_ids' = <<Encode(create_document_id(metric, observations[1])),
                       Encode(create_document_id(metric, observations[2]))>>
  /\ UNCHANGED <<config, backend, now, runNo, pc, local, run1Obs, template,
                 formatted, observations>>

IdNext == CreateDocumentIds

IdSpec == IdInit /\ [][IdNext]_vars

\* ------------------------------------------------------- a run as a function
\* send_query_and_evaluate_results of analytics_query.py as one function of the
\* documents: query, process the page, carry the cursor, until a page is short.
RECURSIVE RunPages(_, _, _)
RunPages(ds, q, fuel) ==
  LET page == Search(metric, events, q)
      after == Bulk(ds, build_bulk_actions_from_query_result(metric, ds, page))
  IN IF page = <<>> \/ fuel = 0 THEN ds
     ELSE IF FullPage(page, q.size) THEN RunPages(after, CarryAfter(q, page), fuel - 1)
     ELSE after

\* The documents a run over the window of q leaves, started on the documents ds.
\* analyticsquery.py builds its batch from the empty last page; the TypeError of
\* analytics_query.py is raised before the first bulk write.
RunOver(ds, q) ==
  IF variant = "scan"
  THEN LET b == ScanBatch(impl, metric, Scan(events, q), indices)
       IN IF b.error # "none" THEN ds ELSE Bulk(ds, b.bulk_actions)
  ELSE IF impl = "analytics_query" /\ ~NodeNameRaises
  THEN RunPages(ds, [q EXCEPT !.after = None], MaxQueries)
  ELSE ds

\* A completed run has left what the function computes.
RunOverAgrees == pc = "done" => docs = RunOver(docs0, query)

PartitionsOf(ds, id) == {x.index : x \in {y \in ds : y.id = id}}
DocKeys(ds) == {<<x.index, x.id>> : x \in ds}
SentSet == {sent[i] : i \in 1..Len(sent)}
IndexedIds == {a.id : a \in {x \in SentSet : x.op_type = "index"}}

\* The number of buckets the source holds for the window of the run.
SourceBuckets == Cardinality(AllKeys(metric, Matching(events, query)))

\* The window has just been resolved and no page has been queried yet.
Resolved == pc = "query" /\ nqueries = 0

\* The greatest max_date published for the flow.
Watermark == SetMax({EpochTime(x.source.max_date) : x \in docs})

\* ================================================================ claims

\* C1: after any sequence of completed runs, every documentId lives in at most
\* one day-partition of the analytics index family.
C1_AtMostOnePartition ==
  pc = "done" => \A x \in docs : Cardinality(PartitionsOf(docs, x.id)) <= 1

\* C2: the first run published an observation with min day D1 and max day D2;
\* the second run sees the same observation with max day D3 > D2.  Then the
\* second run has sent a delete for (D2, id) and an index for (D3, id), and D2
\* no longer holds the id.
Migrated(o, b) ==
  /\ b.id = o.id
  /\ b.min = o.min
  /\ b.max > o.max

C2_CrossPartitionMigration ==
  (pc = "done" /\ runNo = 2) =>
    \A o \in run1Obs, b \in seen :
      Migrated(o, b) =>
        /\ create_bulk_delete_action(IndexName(o.max), o.id) \in SentSet
        /\ \E a \in SentSet :
             a.op_type = "index" /\ a.index = IndexName(b.max) /\ a.id = b.id
        /\ ~Exists(docs, IndexName(o.max), o.id)

C2_Witness ==
  /\ pc = "done"
  /\ runNo = 2
  /\ \E o \in run1Obs, b \in seen :
       /\ Migrated(o, b)
       /\ o.min < o.max
       /\ Exists(docs0, IndexName(o.max), o.id)
       /\ Exists(docs, IndexName(b.max), o.id)

\* C3: a second run over the same window, with the events unchanged, leaves
\* exactly the (partition, documentId) pairs the completed run has left.
C3_Idempotence ==
  pc = "done" => DocKeys(RunOver(docs, query)) = DocKeys(docs)

\* C4: when a run terminates, every bucket any of its page queries returned has
\* had an index action submitted in a bulk write.
C4_Completeness ==
  pc = "done" => \A b \in seen : b.id \in IndexedIds

\* C5: the paginator stops after at most ceil(N / P) + 1 page queries against a
\* source of N buckets and page size P, and for N = 3 * P a finished run has
\* issued exactly 3 or exactly 4.
C5_PaginationTerminates ==
  (variant = "composite" /\ nqueries >= 1) =>
    LET n == SourceBuckets
        p == query.size
        pages == (n + p - 1) \div p
    IN /\ nqueries <= pages + 1
       /\ pc = "query" => nqueries <= pages
       /\ (pc = "done" /\ n = 3 * p) => nqueries \in {3, 4}

C5_Witness ==
  /\ variant = "composite"
  /\ pc = "done"
  /\ SourceBuckets = 3 * query.size
  /\ nqueries = 4
  /\ Len(query_result) = 0

\* C6: when the first page query returns no bucket, the run issues exactly one
\* query, creates no index, writes nothing and finishes without an error.
C6_EmptyFirstPage ==
  (variant = "composite" /\ pc \in {"done", "error"} /\ nqueries >= 1 /\ seen = {}) =>
    /\ pc = "done"
    /\ nqueries = 1
    /\ created = {}
    /\ sent = <<>>
    /\ docs = docs0

\* C7: once a page query has returned fewer buckets than the page size, no
\* further page query is issued in the run, and the page is processed.
C7_StopOnShortPage ==
  (variant = "composite" /\ nqueries >= 1 /\ Len(query_result) < query.size) =>
    /\ pc # "query"
    /\ pc = "done" => ObsOf(query_result) \subseteq {b \in seen : b.id \in IndexedIds}

\* C8: an explicit start is the resolved start; without one, and with a
\* published document of the flow, the resolved start is the greatest published
\* max_date minus five minutes.
C8_WindowResolution ==
  (pc \in {"query", "error"} /\ nqueries = 0) =>
    /\ args.start_date # None =>
         (pc = "query" /\ date.start_date = EpochTime(args.start_date))
    /\ (args.start_date = None /\ docs # {}) =>
         (pc = "query" /\ date.start_date = Watermark - FIVE_MINS)

\* C9: without an explicit start and without a published document of the flow,
\* whether or not an analytics index exists, resolution succeeds with
\* start = now minus five minutes.
C9_NoWatermarkFallback ==
  (pc \in {"query", "error"} /\ nqueries = 0 /\ args.start_date = None /\ docs = {}) =>
    /\ pc = "query"
    /\ date.start_date = now - FIVE_MINS

\* C10: every resolved window has start <= end and end <= now.
C10_WindowInvariant ==
  Resolved => (date.start_date <= date.end_date /\ date.end_date <= now)

\* What the newest-timestamp query of the next invocation returns from the
\* documents ds: the fields of the newest hit (none when there is no hit).
WatermarkRead(ds) ==
  {[max_date |-> x.source.max_date, tsEms |-> x.source.tsEms] : x \in NewestHits(ds)}

\* C11: when a page query fails after at least one page of the run was
\* handled, the run aborts and the watermark the next invocation reads from the
\* analytics index is the one that was there before the aborted run.
C11_FailureKeepsWatermark ==
  (pc = "aborted" /\ nqueries >= 1) => WatermarkRead(docs) = WatermarkRead(docs0)

\* C12: in every batch of the aggregation variant, each bucket has exactly one
\* index action, it targets the partition of the day of the bucket's max date,
\* and every delete action for the same id stands earlier in the batch.
C12_DeleteBeforeIndex ==
  (variant = "composite" /\ pc = "bulk") =>
    \A n \in 1..Len(query_result) :
      LET b == query_result[n]
          id == DocumentId(metric, b.key)
          mine == {i \in 1..Len(bulk_actions) : bulk_actions[i].id = id}
          idx == {i \in mine : bulk_actions[i].op_type = "index"}
          del == {i \in mine : bulk_actions[i].op_type = "delete"}
      IN /\ Cardinality(idx) = 1
         /\ \A i \in idx : bulk_actions[i].index = IndexName(DateOf(b.max))
         /\ \A j \in del, i \in idx : j < i

C12_Witness ==
  /\ variant = "composite"
  /\ pc = "bulk"
  /\ \E j \in 1..Len(bulk_actions), i \in 1..Len(bulk_actions) :
       /\ bulk_actions[j].op_type = "delete"
       /\ bulk_actions[i].op_type = "index"
       /\ bulk_actions[i].id = bulk_actions[j].id
       /\ bulk_actions[i].index # bulk_actions[j].index
       /\ j < i

\* C13: when a batch of either variant is about to be sent, every partition an
\* index action of the batch names existed at the start of the run or has had
\* its create request sent by the run, and the run has sent no create request
\* for a partition that already existed.
C13_CreateBeforeWrite ==
  /\ pc = "bulk" =>
       \A i \in 1..Len(bulk_actions) :
         bulk_actions[i].op_type = "index" =>
           /\ bulk_actions[i].index \in indices
           /\ bulk_actions[i].index \in indices0 \cup created
  /\ created \cap indices0 = {}

C13_Witness ==
  /\ variant = "scan"
  /\ pc = "bulk"
  /\ \E i \in 1..Len(bulk_actions), j \in 1..Len(bulk_actions) :
       /\ bulk_actions[i].index \in created
       /\ bulk_actions[j].index \in indices0

\* C14: whenever the aggregation variant is about to issue the query for a
\* further page, every bucket of the pages returned so far has had its index
\* action sent in a bulk write and is in the partition of its max date.
C14_PageSequential ==
  (variant = "composite" /\ pc = "query" /\ nqueries >= 1) =>
    /\ bulk_actions = <<>>
    /\ \A b \in seen :
         /\ b.id \in IndexedIds
         /\ Exists(docs, IndexName(b.max), b.id)

\* The events of the source whose time is in the closed window of the run.
InClosedWindow == {e \in events : date.start_date <= e.tsEms /\ e.tsEms <= date.end_date}

\* The events of the source whose time is in the half-open window of the run.
InHalfOpenWindow == {e \in events : date.start_date <= e.tsEms /\ e.tsEms < date.end_date}

\* The run has been answered every query of its window: the scan, or every
\* page up to the one that ends the pagination.
AllAnswered ==
  \/ variant = "scan" /\ pc \in {"bulk", "done", "error"} /\ nqueries = 1
  \/ variant = "composite" /\ impl = "analytics_query" /\ pc \in {"bulk", "done", "error"}
       /\ nqueries >= 1 /\ ~FullPage(query_result, query.size)
  \/ variant = "composite" /\ impl = "analyticsquery" /\ pc \in {"build", "bulk", "done", "error"}
       /\ nqueries >= 1

\* The identities of the buckets the events evs fall into.
IdsOf(evs) == {DocumentId(metric, KeyOf(metric, e)) : e \in evs}

\* What the queries of the run selected is what the events evs give.
Selected(evs) ==
  IF variant = "scan"
  THEN {query_result[i] : i \in 1..Len(query_result)} = evs
  ELSE /\ {b.id : b \in seen} = IdsOf(evs)
       /\ \A n \in 1..Len(query_result) :
            query_result[n].doc_count =
              Cardinality({e \in evs : KeyOf(metric, e) = query_result[n].key})

\* C15 as amended: the range filter of both variants selects exactly the events
\* with start <= eventTime <= end; an event whose time equals end is selected.
C15_ClosedWindow == AllAnswered => Selected(InClosedWindow)

\* C15 as stated: the range filter selects exactly the events with
\* start <= eventTime < end.
C15_HalfOpenWindow == AllAnswered => Selected(InHalfOpenWindow)

C15_Witness ==
  /\ AllAnswered
  /\ variant = "scan"
  /\ pc = "done"
  /\ \E e \in events : e.tsEms < date.start_date
  /\ \E i \in 1..Len(query_result) : query_result[i].tsEms = date.end_date

\* The hits of the scan.
HitsOf(hits) == {hits[i] : i \in 1..Len(hits)}

\* The hits that hold some metric key neither at the top level nor in _source.
Malformed(hits) ==
  {h \in HitsOf(hits) : "raise" \in DOMAIN ScanQuery_create_document_id(metric, h)}

\* C16: in the scan variant, when a hit holds a metric key neither at its top
\* level nor in its source payload and the loop body raises on no other hit,
\* the run does not end with an exception, and the run that has finished has
\* sent the index action of every other hit.
C16_SkipMalformedHit ==
  LET others == HitsOf(query_result) \ Malformed(query_result)
  IN (/\ variant = "scan"
      /\ pc \in {"bulk", "done", "error"}
      /\ Malformed(query_result) # {}
      /\ \A h \in others : HitError(impl, metric, h) = "none")
     => /\ pc # "error"
        /\ pc = "done" =>
             \A h \in others :
               \E a \in SentSet :
                 /\ a.op_type = "index"
                 /\ a.index = HitIndexToUpdate(h)
                 /\ a.id = Sha256(ScanQuery_create_document_id(metric, h).value)

\* C17: with one job instance at a time, a finished run has sent no delete
\* twice for the same (partition, id) pair, and every id it has indexed is live
\* in no more than one partition.
C17_SingleInstanceSafe ==
  (variant = "composite" /\ pc = "done") =>
    /\ \A i \in 1..Len(sent), j \in 1..Len(sent) :
         (i # j /\ sent[i].op_type = "delete") => sent[i] # sent[j]
    /\ \A id \in IndexedIds : Cardinality(PartitionsOf(docs, id)) <= 1

\* C18: the id of the index action built for a raw hit is the id
\* CompositeAggregationQuery.create_document_id gives for a bucket key with the
\* same metric and the same key values, whether the hit holds a value at its
\* top level or in its source payload.
C18_IdentityDeterminism ==
  (variant = "scan" /\ pc = "bulk") =>
    /\ Len(bulk_actions) = Len(query_result)
    /\ \A i \in 1..Len(query_result) :
         bulk_actions[i].id = DocumentId(metric, HitKey(metric, query_result[i]))

C18_Witness ==
  /\ variant = "scan"
  /\ pc = "bulk"
  /\ \E i \in 1..Len(query_result), j \in 1..Len(query_result) :
       /\ HasTop(query_result[i], "interactionId")
       /\ ~HasTop(query_result[j], "interactionId")
       /\ bulk_actions[i].id # bulk_actions[j].id

\* The days from min_date up to but excluding max_date whose partition holds
\* the id of bucket b in the documents ds.
Holders(ds, b) ==
  {d \in DateOf(b.min)..(DateOf(b.max) - 1) :
     Exists(ds, IndexName(d), DocumentId(metric, b.key))}

\* The delete actions of a batch for the id of bucket b.
DeletesOf(actions, b) ==
  {i \in 1..Len(actions) :
     actions[i].op_type = "delete" /\ actions[i].id = DocumentId(metric, b.key)}

\* C19: for every bucket of a batch the reconciler has checked the days from
\* the day of min_date on, one after the other; it has stopped at the first
\* day whose partition holds the id, with exactly one delete, for that
\* partition; when no day before the day of max_date holds the id (or there is
\* no such day) it has checked all of them and the batch has no delete.
C19_ReconcilerWalk ==
  (variant = "composite" /\ pc = "bulk") =>
    /\ Len(checked) = Len(query_result)
    /\ \A n \in 1..Len(query_result) :
         LET b == query_result[n]
             lo == DateOf(b.min)
             hi == DateOf(b.max)
             holders == Holders(docs, b)
             dels == DeletesOf(bulk_actions, b)
         IN /\ \A k \in 1..Len(checked[n]) : checked[n][k] = lo + k - 1
            /\ Cardinality(dels) <= 1
            /\ IF holders = {}
               THEN /\ Len(checked[n]) = (IF lo < hi THEN hi - lo ELSE 0)
                    /\ dels = {}
               ELSE /\ Len(checked[n]) = SetMin(holders) - lo + 1
                    /\ \E i \in dels :
                         bulk_actions[i].index = IndexName(SetMin(holders))

C19_Witness ==
  /\ variant = "composite"
  /\ pc = "bulk"
  /\ \E n \in 1..Len(query_result) :
       /\ DateOf(query_result[n].max) - DateOf(query_result[n].min) >= 2
       /\ Len(checked[n]) = 1
       /\ DeletesOf(bulk_actions, query_result[n]) # {}

\* The calendar day of an epoch time.
DayOf(t) == t \div DayLen

\* The index actions of a batch, in order.
IndexActions(actions) == SelectSeq(actions, LAMBDA a : a.op_type = "index")

\* C20: the index action of a bucket names the partition of the calendar day
\* of the greatest event time among the bucket's events, and the index action
\* of a raw hit names the partition of the calendar day of the hit's own event
\* time.
C20_TargetPartition ==
  pc = "bulk" =>
    LET acts == IndexActions(bulk_actions)
    IN /\ Len(acts) = Len(query_result)
       /\ \A n \in 1..Len(query_result) :
            IF variant = "scan"
            THEN acts[n].index = IndexName(DayOf(query_result[n].tsEms))
            ELSE LET mine == {e \in Matching(events, query) :
                                KeyOf(metric, e) = query_result[n].key}
                 IN acts[n].index = IndexName(DayOf(SetMax({e.tsEms : e \in mine})))

C20_Witness ==
  /\ variant = "composite"
  /\ pc = "bulk"
  /\ \E n \in 1..Len(query_result) :
       /\ DateOf(query_result[n].min) < DateOf(query_result[n].max)
       /\ IndexActions(bulk_actions)[n].index = IndexName(DateOf(query_result[n].max))

\* ------------------------------------------------------------------- C21
\* The keys of the buckets the window of the run holds, up to the key `after`.
KeysUpTo(after) ==
  {k \in AllKeys(metric, Matching(events, query)) : KeyRank(k) <= KeyRank(after)}

\* The number of buckets the page queries of the run have returned so far.
BucketsReturned ==
  IF impl = "analytics_query" THEN nqueries * query.size ELSE Len(query_buckets)

\* C21: whenever a page query after the first is about to be issued, the
\* composite clause carries the after-key of the page the preceding query of
\* the same run returned (the key of its last bucket), and the pages returned
\* so far hold every bucket of the window up to that key exactly once: no
\* bucket was skipped and none was returned twice.
C21_CursorCarry ==
  (variant = "composite" /\ pc = "query" /\ nqueries >= 1) =>
    /\ query_result # <<>>
    /\ query.after = query_result[Len(query_result)].key
    /\ {b.id : b \in seen} = {DocumentId(metric, k) : k \in KeysUpTo(query.after)}
    /\ BucketsReturned = Cardinality(KeysUpTo(query.after))

\* A third page query is about to be issued with the cursor of the second page.
C21_Witness ==
  /\ variant = "composite"
  /\ pc = "query"
  /\ nqueries = 2
  /\ query.after = query_result[Len(query_result)].key
  /\ Cardinality(seen) >= 2

\* ------------------------------------------------------------------- C22
\* The index action the scan loop appends for a hit.
ActionOfHit(hit) ==
  [op_type |-> "index",
   index |-> HitIndexToUpdate(hit),
   id |-> Sha256(ScanQuery_create_document_id(metric, hit).value),
   source |-> ScanQuery_create_analytics_document(metric, hit)]

\* C22: a run of the scan variant asks elasticsearch.exists about no document
\* and emits no delete action; the batch it has built holds exactly one index
\* action per hit of the scan, in the order of the hits; nothing is written
\* before the whole sequence of hits has been consumed, and the one bulk write
\* of the run submits exactly that batch.
C22_ScanBatchShape ==
  variant = "scan" =>
    /\ checked = <<>>
    /\ \A i \in 1..Len(bulk_actions) : bulk_actions[i].op_type = "index"
    /\ \A i \in 1..Len(sent) : sent[i].op_type = "index"
    /\ pc = "bulk" =>
         /\ bulk_actions = [i \in 1..Len(query_result) |-> ActionOfHit(query_result[i])]
         /\ sent = <<>>
         /\ docs = docs0
    /\ pc \in {"query", "error", "aborted"} => (sent = <<>> /\ docs = docs0)
    /\ pc = "done" =>
         sent = [i \in 1..Len(query_result) |-> ActionOfHit(query_result[i])]

\* A batch of two index actions built from two hits that are written to
\* different partitions has been submitted in one bulk write.
C22_Witness ==
  /\ variant = "scan"
  /\ pc = "done"
  /\ Len(query_result) = 2
  /\ Len(sent) = 2
  /\ sent[1].index # sent[2].index
  /\ sent[1] = ActionOfHit(query_result[1])
  /\ docs0 # {}

\* ------------------------------------------------------------------- C23
\* The pre-hash id of a hit whose every metric key is taken from the top level
\* of the hit when the hit holds it there, and from _source otherwise.
TopLevelFirstId(hit) ==
  create_document_id(metric,
    [f \in KeyFields(metric) |->
       IF f = "interactionId" /\ hit.top # Absent THEN hit.top ELSE hit[f]])

\* C23: for every raw hit of the source index that holds each metric key in at
\* least one of the two places, the id ScanQuery computes uses for each key the
\* top-level value when there is one, also when _source holds the key too, and
\* the _source value only when the top level lacks the key; the index actions
\* of a batch carry the hash of exactly that id.
C23_TopLevelFirst ==
  variant = "scan" =>
    /\ \A hit \in events :
         (hit.top # Absent \/ hit.interactionId # Absent) =>
           ScanQuery_create_document_id(metric, hit) = [value |-> TopLevelFirstId(hit)]
    /\ pc = "bulk" =>
         \A i \in 1..Len(bulk_actions) :
           bulk_actions[i].id = Sha256(TopLevelFirstId(query_result[i]))

\* A batch holds the action of a hit with interactionId in both places, and its
\* id is the one of the top-level value, not of the _source value.
C23_Witness ==
  /\ variant = "scan"
  /\ pc = "bulk"
  /\ \E i \in 1..Len(bulk_actions) :
       /\ query_result[i].top = "b"
       /\ query_result[i].interactionId = "a"
       /\ bulk_actions[i].id
            = DocumentId(metric, [f \in KeyFields(metric) |->
                IF f = "interactionId" THEN "b" ELSE query_result[i][f]])
       /\ bulk_actions[i].id
            # DocumentId(metric, [f \in KeyFields(metric) |-> query_result[i][f]])

\* ------------------------------------------------------------------- C25
\* The positions of the actions of one kind in a batch.
PositionsOf(actions, op_type) ==
  {i \in 1..Len(actions) : actions[i].op_type = op_type}

\* The calendar day of a partition of the analytics index family.
DayOfIndex(index) == index.analytics

\* C25: the batch the aggregation variant is about to submit holds exactly one
\* index action per bucket of the page it was built from and no other index
\* action, at most one delete action per bucket and no delete for any other
\* id, and every delete names a partition of a day strictly earlier than the
\* partition the index action of the same id names: no delete targets the
\* partition being written.
C25_BatchShape ==
  (variant = "composite" /\ pc = "bulk") =>
    LET idx == PositionsOf(bulk_actions, "index")
        del == PositionsOf(bulk_actions, "delete")
        ids == {DocumentId(metric, query_result[n].key) : n \in 1..Len(query_result)}
    IN /\ Cardinality(idx) = Len(query_result)
       /\ \A id \in ids : Cardinality({i \in idx : bulk_actions[i].id = id}) = 1
       /\ \A id \in ids : Cardinality({j \in del : bulk_actions[j].id = id}) <= 1
       /\ \A j \in del : bulk_actions[j].id \in ids
       /\ \A j \in del, i \in idx :
            bulk_actions[j].id = bulk_actions[i].id =>
              DayOfIndex(bulk_actions[j].index) < DayOfIndex(bulk_actions[i].index)

\* A batch whose bucket is already held both by an earlier partition and by the
\* partition being written: the batch deletes from the earlier one only.
C25_Witness ==
  /\ variant = "composite"
  /\ pc = "bulk"
  /\ \E j \in PositionsOf(bulk_actions, "delete"),
        i \in PositionsOf(bulk_actions, "index") :
       /\ bulk_actions[j].id = bulk_actions[i].id
       /\ Exists(docs, bulk_actions[i].index, bulk_actions[i].id)
       /\ Exists(docs, bulk_actions[j].index, bulk_actions[j].id)
       /\ DayOfIndex(bulk_actions[j].index) < DayOfIndex(bulk_actions[i].index)

\* ------------------------------------------------------------------- C26
\* The range filter the query carries.
RangeOf(q) == [gte |-> q.gte, lte |-> q.lte]

\* C26: the range of the query is the window resolved at construction, and no
\* step of a run changes the resolved window, the arguments, the range filter
\* or the page size of the query: from one page query to the next only the
\* after-key of the composite clause changes, also when the run has published
\* documents that move the watermark.
C26_WindowFixed ==
  [][(pc # "idle" /\ pc' # "idle") =>
       /\ RangeOf(query) = [gte |-> date.start_date, lte |-> date.end_date]
       /\ date' = date
       /\ args' = args
       /\ RangeOf(query') = RangeOf(query)
       /\ query'.size = query.size]_vars

\* A later page query is about to be issued with the range resolved from the
\* watermark at construction, after the run has published documents that moved
\* the watermark.
C26_Witness ==
  /\ variant = "composite"
  /\ pc = "query"
  /\ nqueries >= 1
  /\ args.start_date = None
  /\ docs0 # {}
  /\ WatermarkRead(docs) # WatermarkRead(docs0)
  /\ query.after # None
  /\ RangeOf(query) = [gte |-> date.start_date, lte |-> date.end_date]

\* ------------------------------------------------------------------- C24
\* The dictionary without one of its keys.
Without(dictionary, key) == [k \in DOMAIN dictionary \ {key} |-> dictionary[k]]

\* The template holds a "must" under query.bool.
TemplateHasMust ==
  /\ Has(template, "query")
  /\ Has(template["query"], "bool")
  /\ Has(template["query"]["bool"], "must")

\* The two clauses format_query adds, for some window.
AddedClauses ==
  {<<match_phrase(variant, FlowId), query_range(start, end)>> :
     start \in Times, end \in Times}

\* C24: after format_query, when the template held a list of filter clauses
\* under query.bool.must, the list holds the same clauses in the same order
\* followed by exactly one flowId match clause and one event-time range
\* clause; when the template held no must, one has been created that holds
\* exactly those two clauses; and every other key of the template's query and
\* bool dictionaries, and every top-level key but "aggs", is as the caller
\* supplied it.
C24_FilterInjection ==
  (formatted # None /\ (TemplateHasMust => IsList(template["query"]["bool"]["must"]))) =>
    /\ "value" \in DOMAIN formatted
    /\ LET was == IF TemplateHasMust THEN template["query"]["bool"]["must"].list
                  ELSE <<>>
           q == formatted.value
       IN /\ IsList(q["query"]["bool"]["must"])
          /\ \E added \in AddedClauses :
               q["query"]["bool"]["must"].list = was \o added
          /\ Without(q["query"]["bool"], "must")
               = Without(setdefault(setdefault(template, "query"), "bool"), "must")
          /\ Without(q["query"], "bool") = Without(setdefault(template, "query"), "bool")
          /\ Without(Without(q, "query"), "aggs")
               = Without(Without(template, "query"), "aggs")

\* A template with two clauses under must and a filter beside it has been
\* formatted: the list holds four clauses, the two of the template first.
C24_Witness ==
  /\ formatted # None
  /\ "value" \in DOMAIN formatted
  /\ TemplateHasMust
  /\ IsList(template["query"]["bool"]["must"])
  /\ Len(template["query"]["bool"]["must"].list) = 2
  /\ Has(template["query"]["bool"], "filter")
  /\ Len(formatted.value["query"]["bool"]["must"].list) = 4
  /\ formatted.value["query"]["bool"]["must"].list[1]
       = template["query"]["bool"]["must"].list[1]

\* ------------------------------------------------------------------- C27
\* C27: for one metric and one configured key order, two observations whose
\* ordered metric-key values differ have different id strings before hashing.
C27_InjectiveIds ==
  (document_ids # <<>> /\ observations[1] # observations[2]) =>
    document_ids[1] # document_ids[2]

====
